---------------------------- MODULE Spec2Model ----------------------------
(* A model of restream.py: the extended-M3U parser (parse_extinf,         *)
(* parse_m3u), the playlist cache (get_channels, CACHE), the HLS playlist *)
(* rewriter (rewrite_m3u8_playlist), the watch / play / play-audio routes *)
(* and the ffmpeg audio generator (proxy_audio_only).                     *)
(*                                                                        *)
(* Python strings are modelled as sequences of one-character strings, so  *)
(* that find / rfind / strip / split / startswith are computed character  *)
(* by character as the interpreter computes them.  Python indexes from 0, *)
(* TLA+ sequences from 1: At and Slice do the conversion.                 *)
EXTENDS Integers, Sequences, FiniteSets, TLC

(* ---------------------------------------------------------------------- *)
(* Bounds of the model                                                    *)
(* ---------------------------------------------------------------------- *)
MaxLines  == 5         \* lines of a playlist text given to parse_m3u
MaxReq    == 2         \* HTTP requests served (one thread each)
MaxTicks  == 2         \* advances of the wall clock, half a TTL each
MaxIdx    == 1         \* largest channel index a request may name
MaxChunks == 1         \* chunks ffmpeg writes to its stdout per request
MaxAttrs  == 2         \* attributes of an #EXTINF line given to parse_extinf
MaxSegLines == 3       \* lines of a playlist given to rewrite_m3u8_playlist

(* ---------------------------------------------------------------------- *)
(* Python str primitives                                                  *)
(* ---------------------------------------------------------------------- *)
SetMin(S) == CHOOSE x \in S : \A y \in S : x <= y
SetMax(S) == CHOOSE x \in S : \A y \in S : x >= y

\* s[i]
At(s, i) == s[i + 1]

\* s[a:b] for 0 <= a
Slice(s, a, b) == SubSeq(s, a + 1, IF b > Len(s) THEN Len(s) ELSE b)

\* s.find(c, start) for a one-character c
Find(s, c, start) ==
    LET hits == {i \in start .. Len(s) - 1 : At(s, i) = c}
    IN  IF hits = {} THEN -1 ELSE SetMin(hits)

\* s.rfind(c, 0, end) for a one-character c
RFind(s, c, end) ==
    LET hits == {i \in 0 .. end - 1 : At(s, i) = c}
    IN  IF hits = {} THEN -1 ELSE SetMax(hits)

\* s.startswith(p)
StartsWith(s, p) == Len(s) >= Len(p) /\ SubSeq(s, 1, Len(p)) = p

\* s.endswith(p)
EndsWith(s, p) == Len(s) >= Len(p) /\ SubSeq(s, Len(s) - Len(p) + 1, Len(s)) = p

\* p in s
Contains(s, p) == \E i \in 1 .. Len(s) - Len(p) + 1 : SubSeq(s, i, i + Len(p) - 1) = p

\* str.isspace() for the characters of the model's alphabet
IsSpace(c) == c \in {" ", "\t", "\n", "\r"}

\* s.strip()
Strip(s) ==
    LET keep == {i \in 1 .. Len(s) : ~IsSpace(s[i])}
    IN  IF keep = {} THEN <<>> ELSE SubSeq(s, SetMin(keep), SetMax(keep))

\* The line boundaries of str.splitlines() within the model's alphabet.
IsLineBreak(c) == c \in {"\n", "\r"}

\* text.splitlines(): "\r\n" is one boundary, and a trailing boundary adds
\* no empty last line.  acc holds the lines before position p.
RECURSIVE SplitLinesFrom(_, _, _)
SplitLinesFrom(text, p, acc) ==
    IF p > Len(text) THEN acc
    ELSE LET breaks == {i \in p .. Len(text) : IsLineBreak(text[i])} IN
         IF breaks = {} THEN Append(acc, SubSeq(text, p, Len(text)))
         ELSE LET b    == SetMin(breaks)
                  crlf == text[b] = "\r" /\ b < Len(text) /\ text[b + 1] = "\n"
              IN  SplitLinesFrom(text, IF crlf THEN b + 2 ELSE b + 1,
                                 Append(acc, SubSeq(text, p, b - 1)))

splitlines(text) == SplitLinesFrom(text, 1, <<>>)

(* ---------------------------------------------------------------------- *)
(* String literals of the program                                         *)
(* ---------------------------------------------------------------------- *)
S_EXTINF      == <<"#","E","X","T","I","N","F">>
S_HASH        == <<"#">>
S_TVG_NAME    == <<"t","v","g","-","n","a","m","e">>
S_TVG_LOGO    == <<"t","v","g","-","l","o","g","o">>
S_GROUP_TITLE == <<"g","r","o","u","p","-","t","i","t","l","e">>
S_TVG_ID      == <<"t","v","g","-","i","d">>
S_UNKNOWN     == <<"U","n","k","n","o","w","n">>
S_DOT_M3U8    == <<".","m","3","u","8">>
S_DOT_M3U     == <<".","m","3","u">>

(* ---------------------------------------------------------------------- *)
(* parse_extinf                                                           *)
(* ---------------------------------------------------------------------- *)
\* attrs[key] = val on a dict modelled as a function
DictSet(d, k, v) == [x \in DOMAIN d \cup {k} |-> IF x = k THEN v ELSE d[x]]

\* d.get(k) or ""
GetOrEmpty(d, k) == IF k \in DOMAIN d THEN d[k] ELSE <<>>

EmptyDict == [x \in {} |-> <<>>]

\* The while loop of parse_extinf over `left`, from scan position pos.
RECURSIVE ScanAttrs(_, _, _)
ScanAttrs(left, pos, attrs) ==
    LET eq == Find(left, "=", pos) IN
    IF eq = -1 THEN attrs
    ELSE
      LET sp        == RFind(left, " ", eq)
          colon     == RFind(left, ":", eq)
          key_start == IF colon > sp THEN colon ELSE sp
          key       == Strip(Slice(left, key_start + 1, eq))
      IN
      IF eq + 1 < Len(left) /\ At(left, eq + 1) = "\""
      THEN LET val_start == eq + 2
               val_end   == Find(left, "\"", val_start)
           IN  IF val_end = -1 THEN attrs
               ELSE ScanAttrs(left, val_end + 1,
                              DictSet(attrs, key, Slice(left, val_start, val_end)))
      ELSE LET found   == Find(left, " ", eq + 1)
               val_end == IF found = -1 THEN Len(left) ELSE found
           IN  ScanAttrs(left, val_end,
                         DictSet(attrs, key, Strip(Slice(left, eq + 1, val_end))))

parse_extinf(line) ==
    LET comma == Find(line, ",", 0)
        left  == IF comma = -1 THEN line ELSE Slice(line, 0, comma)
        title == IF comma = -1 THEN <<>> ELSE Slice(line, comma + 1, Len(line))
    IN  [attrs |-> ScanAttrs(left, 0, EmptyDict), title |-> Strip(title)]

(* ---------------------------------------------------------------------- *)
(* parse_m3u                                                              *)
(* ---------------------------------------------------------------------- *)
\* lines = [l.strip() for l in text.splitlines() if l.strip()]
RECURSIVE StripNonEmpty(_)
StripNonEmpty(ls) ==
    IF ls = <<>> THEN <<>>
    ELSE LET s == Strip(Head(ls))
         IN  IF s = <<>> THEN StripNonEmpty(Tail(ls))
             ELSE <<s>> \o StripNonEmpty(Tail(ls))

\* A variant of the inner loop that only looks at the line right after
\* the directive.
FindUrlAdjacent(lines, i) ==
    IF i + 1 < Len(lines) /\ ~StartsWith(At(lines, i + 1), S_HASH)
    THEN i + 1 ELSE Len(lines)

\* The inner while loop: first j >= i + 1 whose line does not start with
\* "#", or len(lines) when the loop runs off the end (url stays None).
FindUrl(lines, i) ==
    LET js == {j \in i + 1 .. Len(lines) - 1 : ~StartsWith(At(lines, j), S_HASH)}
    IN  IF js = {} THEN Len(lines) ELSE SetMin(js)

\* The dict appended to channels.
ChannelRecord(ext, url) ==
    [title  |-> IF ext.title # <<>> THEN ext.title
                ELSE IF GetOrEmpty(ext.attrs, S_TVG_NAME) # <<>>
                     THEN ext.attrs[S_TVG_NAME]
                     ELSE S_UNKNOWN,
     url    |-> url,
     logo   |-> GetOrEmpty(ext.attrs, S_TVG_LOGO),
     group  |-> GetOrEmpty(ext.attrs, S_GROUP_TITLE),
     tvg_id |-> GetOrEmpty(ext.attrs, S_TVG_ID)]

\* The outer while loop of parse_m3u.
RECURSIVE ParseLoop(_, _, _)
ParseLoop(lines, i, channels) ==
    IF i >= Len(lines) THEN channels
    ELSE IF StartsWith(At(lines, i), S_EXTINF)
         THEN LET j == FindUrl(lines, i)
              IN  ParseLoop(lines, j + 1,
                            IF j < Len(lines)
                            THEN Append(channels,
                                        ChannelRecord(parse_extinf(At(lines, i)), At(lines, j)))
                            ELSE channels)
         ELSE ParseLoop(lines, i + 1, channels)

parse_m3u(text) == ParseLoop(StripNonEmpty(splitlines(text)), 0, <<>>)

(* ---------------------------------------------------------------------- *)
(* Playlist texts given to the parser                                     *)
(* ---------------------------------------------------------------------- *)
L_HEADER  == <<"#","E","X","T","M","3","U">>
L_INF_A   == <<"#","E","X","T","I","N","F",":","-","1",",","A">>
L_INF_B   == <<"#","E","X","T","I","N","F",":","-","1"," ","t","v","g","-","i","d","=","\"","x","\"",",","B">>
L_COMMENT == <<"#","E","X","T","V","L","C","O","P","T",":","o">>
L_URL_1   == <<"h","t","t","p",":","/","/","a","/","1",".","m","3","u","8">>
L_URL_2   == <<"h","t","t","p",":","/","/","b","/","2">>
L_BLANK   == <<" ">>

LinePool == {L_HEADER, L_INF_A, L_INF_B, L_COMMENT, L_URL_1, L_URL_2, L_BLANK}

\* "\n".join(ls) + "\n"
RECURSIVE JoinLines(_)
JoinLines(ls) ==
    IF ls = <<>> THEN <<>> ELSE Head(ls) \o <<"\n">> \o JoinLines(Tail(ls))

PlaylistLines == UNION {[1 .. n -> LinePool] : n \in 0 .. MaxLines}

(* ---------------------------------------------------------------------- *)
(* Configuration of the program                                           *)
(* ---------------------------------------------------------------------- *)
REFRESH_INTERVAL == 1800

\* Two of the thirty entries of PLAYLISTS; the code treats every entry alike.
PLAYLISTS ==
    [n \in {"news", "sports"} |->
        IF n = "news" THEN "https://iptv-org.github.io/iptv/categories/news.m3u"
        ELSE "https://iptv-org.github.io/iptv/categories/sports.m3u"]

\* The <group> path component of a request: a known source or an unknown one.
Groups == DOMAIN PLAYLISTS \cup {"nosuch"}

Routes == {"list", "watch", "play", "audio"}

Requests == 1 .. MaxReq

\* Bodies the playlist server may answer with.
TEXT_ONE == JoinLines(<<L_HEADER, L_INF_A, L_URL_1>>)
TEXT_TWO == JoinLines(<<L_HEADER, L_INF_B, L_URL_2, L_INF_A, L_URL_1>>)
UpstreamTexts == {TEXT_ONE, TEXT_TWO}

\* parse_m3u(resp.text) for each of these bodies, computed once.
ParsedUpstream == [text \in UpstreamTexts |-> parse_m3u(text)]

\* The clock advances in steps of half the TTL, so that ages below, equal
\* to and above REFRESH_INTERVAL all occur.
TickSeconds == REFRESH_INTERVAL \div 2

VARIABLES
    src,        \* the lines of the text handed to parse_m3u
    parsed,     \* [done, channels]: the value parse_m3u returned
    clock,      \* time.time(), relative to the start of the process
    CACHE,      \* name -> [present, time, channels]
    req,        \* per request: position in its handler and its locals
    proc,       \* per request: the ffmpeg subprocess of proxy_audio_only
    inf_line,   \* the #EXTINF line handed to parse_extinf
    inf,        \* [done, attrs, title, channels]: what the parser made of it
    m3u8,       \* [url, lines]: the playlist rewrite_m3u8_playlist fetches
    rewritten   \* [done, text]: the text rewrite_m3u8_playlist returned

evars == <<inf_line, inf>>
wvars == <<m3u8, rewritten>>
pvars == <<src, parsed, evars, wvars>>
mvars == <<clock, CACHE, req, proc>>
vars  == <<src, parsed, clock, CACHE, req, proc, inf_line, inf, m3u8, rewritten>>

(* ---------------------------------------------------------------------- *)
(* Initial state                                                          *)
(* ---------------------------------------------------------------------- *)
\* CACHE.get(name) of a name that has no entry yet.
NoEntry == [present |-> FALSE, time |-> 0, channels |-> <<>>]

NoRequest ==
    [pc |-> "idle", route |-> "none", group |-> "none", idx |-> 0, now |-> 0,
     channels |-> <<>>, outcome |-> "none", status |-> 0, fetches |-> 0]

NoProc == [state |-> "none", term |-> FALSE, kill |-> FALSE, avail |-> FALSE, out |-> 0]

NoExt == [done |-> FALSE, attrs |-> EmptyDict, title |-> <<>>, channels |-> <<>>]

NoRewrite == [done |-> FALSE, raised |-> FALSE, text |-> <<>>]

\* The parser and the rewriter have been handed nothing.
PureIdle ==
    /\ inf_line = <<>>
    /\ inf = NoExt
    /\ m3u8 = [url |-> <<>>, lines |-> <<>>]
    /\ rewritten = NoRewrite

MainInit ==
    /\ clock = 0
    /\ CACHE = [n \in DOMAIN PLAYLISTS |-> NoEntry]
    /\ req = [r \in Requests |-> NoRequest]
    /\ proc = [r \in Requests |-> NoProc]

(* ---------------------------------------------------------------------- *)
(* The parser on its own: parse_m3u applied to a text of the pool         *)
(* ---------------------------------------------------------------------- *)
ParseInit ==
    /\ src \in PlaylistLines
    /\ parsed = [done |-> FALSE, channels |-> <<>>]
    /\ PureIdle
    /\ MainInit

Parse ==
    /\ ~parsed.done
    /\ parsed' = [done |-> TRUE, channels |-> parse_m3u(JoinLines(src))]
    /\ UNCHANGED <<src, mvars, evars, wvars>>

ParseNext == Parse

ParseSpec == ParseInit /\ [][ParseNext]_vars

(* ---------------------------------------------------------------------- *)
(* get_channels                                                           *)
(* ---------------------------------------------------------------------- *)
\* The freshness test with its comparison the wrong way round.
IsFresh_Reversed(now, cached) == now - cached.time > REFRESH_INTERVAL

\* now - cached.get("time", 0) < REFRESH_INTERVAL
IsFresh(now, cached) == now - cached.time < REFRESH_INTERVAL

\* A refresh that patches the entry in place: the new time, and the new
\* channels only where there were none.
StoreEntry_InPlace(cache, name, now, channels) ==
    [cache EXCEPT ![name] = [present |-> TRUE, time |-> now,
                             channels |-> IF @.present THEN @.channels ELSE channels]]

\* CACHE[name] = {"time": now, "channels": channels}
StoreEntry(cache, name, now, channels) ==
    [cache EXCEPT ![name] = [present |-> TRUE, time |-> now, channels |-> channels]]

\* The value of the except branch: return []
FailureResult(cached) == <<>>

\* A route handler starts: the 404 of an unknown group, else the first
\* line of get_channels, now = time.time().
Enter(r, rt, g, i) ==
    /\ req[r].pc = "idle"
    /\ req' = [req EXCEPT ![r] =
                 IF g \notin DOMAIN PLAYLISTS
                 THEN [@ EXCEPT !.pc = "done", !.route = rt, !.group = g, !.idx = i,
                                !.status = 404]
                 ELSE [@ EXCEPT !.pc = "get", !.route = rt, !.group = g, !.idx = i,
                                !.now = clock]]
    /\ UNCHANGED <<pvars, clock, CACHE, proc>>

\* cached = CACHE.get(name); return cached["channels"] when fresh, else go
\* on to requests.get.
GetCached(r) ==
    /\ req[r].pc = "get"
    /\ LET cached == CACHE[req[r].group] IN
       req' = [req EXCEPT ![r] =
                 IF cached.present /\ IsFresh(req[r].now, cached)
                 THEN [@ EXCEPT !.pc = "route", !.channels = cached.channels,
                                !.outcome = "hit"]
                 ELSE [@ EXCEPT !.pc = "fetch"]]
    /\ UNCHANGED <<pvars, clock, CACHE, proc>>

\* requests.get answered 2xx with body text: parse, store, return.
FetchOk(r, text) ==
    /\ req[r].pc = "fetch"
    /\ LET channels == ParsedUpstream[text] IN
       /\ CACHE' = StoreEntry(CACHE, req[r].group, req[r].now, channels)
       /\ req' = [req EXCEPT ![r] = [@ EXCEPT !.pc = "route", !.channels = channels,
                                               !.outcome = "fetched"]]
    /\ UNCHANGED <<pvars, clock, proc>>

\* An except branch that remembers the failure as an empty entry.
FetchFail_CachesFailure(r) ==
    /\ req[r].pc = "fetch"
    /\ CACHE' = StoreEntry(CACHE, req[r].group, req[r].now, <<>>)
    /\ req' = [req EXCEPT ![r] =
                 [@ EXCEPT !.pc = "route", !.channels = <<>>, !.outcome = "failed"]]
    /\ UNCHANGED <<pvars, clock, proc>>

\* requests.get or raise_for_status raised.
FetchFail(r) ==
    /\ req[r].pc = "fetch"
    /\ req' = [req EXCEPT ![r] =
                 [@ EXCEPT !.pc = "route",
                           !.channels = FailureResult(CACHE[req[r].group]),
                           !.outcome = "failed"]]
    /\ UNCHANGED <<pvars, clock, CACHE, proc>>

(* ---------------------------------------------------------------------- *)
(* Routes                                                                 *)
(* ---------------------------------------------------------------------- *)
\* A bounds check that forgets the negative indexes.
IndexOk_UpperOnly(i, channels) == ~(i >= Len(channels))

\* not (idx < 0 or idx >= len(channels))
IndexOk(i, channels) == ~(i < 0 \/ i >= Len(channels))

\* channels[idx] raises IndexError unless -len <= idx < len
Indexable(i, channels) == -Len(channels) <= i /\ i < Len(channels)

\* channels[idx], where a negative idx counts from the end
ListAt(channels, i) == IF i < 0 THEN channels[Len(channels) + i + 1] ELSE channels[i + 1]

LowerChar(c) ==
    LET up == <<"A","B","C","D","E","F","G","H","I","J","K","L","M",
                "N","O","P","Q","R","S","T","U","V","W","X","Y","Z">>
        lo == <<"a","b","c","d","e","f","g","h","i","j","k","l","m",
                "n","o","p","q","r","s","t","u","v","w","x","y","z">>
        at == {k \in 1 .. Len(up) : up[k] = c}
    IN  IF at = {} THEN c ELSE lo[CHOOSE k \in at : TRUE]

\* s.lower()
Lower(s) == [k \in 1 .. Len(s) |-> LowerChar(s[k])]

\* '.m3u8' in source_url.lower() or source_url.endswith('.m3u')
is_hls(source_url) == Contains(Lower(source_url), S_DOT_M3U8) \/ EndsWith(source_url, S_DOT_M3U)

Finish(r, code) == [req EXCEPT ![r] = [@ EXCEPT !.pc = "done", !.status = code]]

\* list_group after get_channels: render the list (an empty one too).
ListRender(r) ==
    /\ req[r].pc = "route" /\ req[r].route = "list"
    /\ req' = Finish(r, 200)
    /\ UNCHANGED <<pvars, clock, CACHE, proc>>

\* watch_channel after get_channels.
WatchRespond(r) ==
    /\ req[r].pc = "route" /\ req[r].route = "watch"
    /\ req' = Finish(r, IF ~IndexOk(req[r].idx, req[r].channels) THEN 404
                         ELSE IF ~Indexable(req[r].idx, req[r].channels) THEN 500
                         ELSE 200)
    /\ UNCHANGED <<pvars, clock, CACHE, proc>>

\* play_channel after get_channels: 404, or issue the stream fetch of
\* proxy_m3u8 / proxy_direct_stream.
PlayDispatch(r) ==
    /\ req[r].pc = "route" /\ req[r].route = "play"
    /\ req' = IF ~IndexOk(req[r].idx, req[r].channels)
              THEN Finish(r, 404)
              ELSE IF ~Indexable(req[r].idx, req[r].channels)
              THEN Finish(r, 500)
              ELSE [req EXCEPT ![r] =
                      [@ EXCEPT !.pc = IF is_hls(ListAt(req[r].channels, req[r].idx).url)
                                       THEN "hls" ELSE "direct",
                                !.fetches = @ + 1]]
    /\ UNCHANGED <<pvars, clock, CACHE, proc>>

\* rewrite_m3u8_playlist returned.
HlsOk(r) ==
    /\ req[r].pc = "hls"
    /\ req' = Finish(r, 200)
    /\ UNCHANGED <<pvars, clock, CACHE, proc>>

\* rewrite_m3u8_playlist raised: proxy_m3u8 fetches the playlist again.
HlsRewriteFail(r) ==
    /\ req[r].pc = "hls"
    /\ req' = [req EXCEPT ![r] = [@ EXCEPT !.pc = "hls_raw", !.fetches = @ + 1]]
    /\ UNCHANGED <<pvars, clock, CACHE, proc>>

\* The second fetch of proxy_m3u8: the raw playlist, or abort(502).
HlsRawResult(r, ok) ==
    /\ req[r].pc = "hls_raw"
    /\ req' = Finish(r, IF ok THEN 200 ELSE 502)
    /\ UNCHANGED <<pvars, clock, CACHE, proc>>

\* proxy_direct_stream: the upstream answered (the body is then relayed
\* by generate()), or abort(502).
DirectResult(r, ok) ==
    /\ req[r].pc = "direct"
    /\ req' = Finish(r, IF ok THEN 200 ELSE 502)
    /\ UNCHANGED <<pvars, clock, CACHE, proc>>

\* play_channel_audio after get_channels: 404, or the streaming response
\* whose generator spawns ffmpeg.
AudioRespond(r) ==
    /\ req[r].pc = "route" /\ req[r].route = "audio"
    /\ req' = IF ~IndexOk(req[r].idx, req[r].channels)
              THEN Finish(r, 404)
              ELSE IF ~Indexable(req[r].idx, req[r].channels)
              THEN Finish(r, 500)
              ELSE [req EXCEPT ![r] = [@ EXCEPT !.pc = "spawn", !.status = 200]]
    /\ UNCHANGED <<pvars, clock, CACHE, proc>>

(* ---------------------------------------------------------------------- *)
(* proxy_audio_only                                                       *)
(* ---------------------------------------------------------------------- *)
Goto(r, l) == [req EXCEPT ![r] = [@ EXCEPT !.pc = l]]

\* subprocess.Popen(cmd, ...) succeeded.
Spawn(r) ==
    /\ req[r].pc = "spawn"
    /\ proc' = [proc EXCEPT ![r] = [@ EXCEPT !.state = "running"]]
    /\ req' = Goto(r, "read")
    /\ UNCHANGED <<pvars, clock, CACHE>>

\* subprocess.Popen raised (no ffmpeg binary): gen() logs and ends.
SpawnFail(r) ==
    /\ req[r].pc = "spawn"
    /\ req' = Goto(r, "done")
    /\ UNCHANGED <<pvars, clock, CACHE, proc>>

\* ffmpeg writes a chunk to its stdout.
ProcOutput(r) ==
    /\ proc[r].state = "running" /\ ~proc[r].avail /\ proc[r].out < MaxChunks
    /\ proc' = [proc EXCEPT ![r] = [@ EXCEPT !.avail = TRUE, !.out = @ + 1]]
    /\ UNCHANGED <<pvars, clock, CACHE, req>>

\* ffmpeg exits (end of input, an error of its own, or a signal): its
\* stdout reaches end of file and it stays a zombie until reaped.
ProcExit(r) ==
    /\ proc[r].state = "running"
    /\ proc' = [proc EXCEPT ![r] = [@ EXCEPT !.state = "exited"]]
    /\ UNCHANGED <<pvars, clock, CACHE, req>>

\* proc.stdout.read returned data: yield it.
ReadData(r) ==
    /\ req[r].pc = "read" /\ proc[r].avail
    /\ proc' = [proc EXCEPT ![r] = [@ EXCEPT !.avail = FALSE]]
    /\ req' = Goto(r, "yield")
    /\ UNCHANGED <<pvars, clock, CACHE>>

\* proc.stdout.read returned b"": break.
ReadEof(r) ==
    /\ req[r].pc = "read" /\ ~proc[r].avail /\ proc[r].state = "exited"
    /\ req' = Goto(r, "term")
    /\ UNCHANGED <<pvars, clock, CACHE, proc>>

\* proc.stdout.read raised: logged by the except clause.
ReadError(r) ==
    /\ req[r].pc = "read"
    /\ req' = Goto(r, "term")
    /\ UNCHANGED <<pvars, clock, CACHE, proc>>

\* The client took the chunk: the generator is resumed.
ClientTake(r) ==
    /\ req[r].pc = "yield"
    /\ req' = Goto(r, "read")
    /\ UNCHANGED <<pvars, clock, CACHE, proc>>

\* The client went away or the generator was dropped: GeneratorExit is
\* raised at the yield and the finally clause runs.
ClientGone(r) ==
    /\ req[r].pc = "yield"
    /\ req' = Goto(r, "term")
    /\ UNCHANGED <<pvars, clock, CACHE, proc>>

\* finally: proc.terminate(), then time.sleep(0.5).
Terminate(r) ==
    /\ req[r].pc = "term"
    /\ proc' = [proc EXCEPT ![r] = [@ EXCEPT !.term = TRUE]]
    /\ req' = Goto(r, "poll")
    /\ UNCHANGED <<pvars, clock, CACHE>>

\* A teardown that polls but never kills.
PollKill_NoKill(p) ==
    IF p.state = "running" THEN p ELSE [p EXCEPT !.state = "reaped"]

\* What `if proc.poll() is None: proc.kill()` does to the process record:
\* poll reaps a process that has exited, kill is sent to one that has not.
PollKill(p) ==
    IF p.state = "running" THEN [p EXCEPT !.kill = TRUE]
    ELSE [p EXCEPT !.state = "reaped"]

Poll(r) ==
    /\ req[r].pc = "poll"
    /\ proc' = [proc EXCEPT ![r] = PollKill(@)]
    /\ req' = Goto(r, "wait")
    /\ UNCHANGED <<pvars, clock, CACHE>>

\* proc.wait(): returns once the process has exited, and reaps it.
Wait(r) ==
    /\ req[r].pc = "wait" /\ proc[r].state # "running"
    /\ proc' = [proc EXCEPT ![r] = [@ EXCEPT !.state = "reaped"]]
    /\ req' = Goto(r, "done")
    /\ UNCHANGED <<pvars, clock, CACHE>>

(* ---------------------------------------------------------------------- *)
(* The server                                                             *)
(* ---------------------------------------------------------------------- *)
Tick ==
    /\ clock < MaxTicks * TickSeconds
    /\ clock' = clock + TickSeconds
    /\ UNCHANGED <<pvars, CACHE, req, proc>>

(* ---------------------------------------------------------------------- *)
(* One #EXTINF line: parse_extinf, and parse_m3u on the line and a URL    *)
(* ---------------------------------------------------------------------- *)
E_HEAD   == <<"#","E","X","T","I","N","F",":","-","1">>
\* A quoted attribute, one whose value holds a comma, one whose quote is
\* never closed, and an unquoted one.
A_ID     == <<" ","t","v","g","-","i","d","=","\"","x","\"">>
A_NAME   == <<" ","t","v","g","-","n","a","m","e","=","\"","N","\"">>
A_GROUP  == <<" ","g","r","o","u","p","-","t","i","t","l","e","=","\"","a",",","b","\"">>
A_OPEN   == <<" ","t","v","g","-","l","o","g","o","=","\"","L">>
A_BARE   == <<" ","k","=","v">>
AttrPool == {A_ID, A_NAME, A_GROUP, A_OPEN, A_BARE}

\* No comma at all, a comma and nothing after it, a title, a title with
\* commas of its own.
T_NONE   == <<>>
T_EMPTY  == <<",">>
T_ONE    == <<",","T">>
T_COMMAS == <<",","A",",","B">>
TitlePool == {T_NONE, T_EMPTY, T_ONE, T_COMMAS}

RECURSIVE Concat(_)
Concat(ss) == IF ss = <<>> THEN <<>> ELSE Head(ss) \o Concat(Tail(ss))

ExtinfLines ==
    {E_HEAD \o Concat(as) \o t :
        as \in UNION {[1 .. n -> AttrPool] : n \in 0 .. MaxAttrs}, t \in TitlePool}

ExtinfInit ==
    /\ inf_line \in ExtinfLines
    /\ inf = NoExt
    /\ src = <<>>
    /\ parsed = [done |-> FALSE, channels |-> <<>>]
    /\ m3u8 = [url |-> <<>>, lines |-> <<>>]
    /\ rewritten = NoRewrite
    /\ MainInit

\* attrs, title = parse_extinf(line), and parse_m3u of the line followed by
\* a URL line.
ParseExtinf ==
    /\ ~inf.done
    /\ inf' = [done     |-> TRUE,
               attrs    |-> parse_extinf(inf_line).attrs,
               title    |-> parse_extinf(inf_line).title,
               channels |-> parse_m3u(JoinLines(<<inf_line, L_URL_1>>))]
    /\ UNCHANGED <<inf_line, src, parsed, wvars, mvars>>

ExtinfNext == ParseExtinf

ExtinfSpec == ExtinfInit /\ [][ExtinfNext]_vars

(* ---------------------------------------------------------------------- *)
(* rewrite_m3u8_playlist                                                  *)
(* ---------------------------------------------------------------------- *)
S_EXTM3U        == <<"#","E","X","T","M","3","U">>
S_VERSION       == <<"#","E","X","T","-","X","-","V","E","R","S","I","O","N">>
S_ALLOW_CACHE   == <<"#","E","X","T","-","X","-","A","L","L","O","W","-","C","A","C","H","E">>
S_PLAYLIST_TYPE == <<"#","E","X","T","-","X","-","P","L","A","Y","L","I","S","T","-","T","Y","P","E">>
S_ENDLIST       == <<"#","E","X","T","-","X","-","E","N","D","L","I","S","T">>
S_VERSION_3     == <<"#","E","X","T","-","X","-","V","E","R","S","I","O","N",":","3">>
S_ALLOW_NO      == <<"#","E","X","T","-","X","-","A","L","L","O","W","-","C","A","C","H","E",":","N","O">>
S_TYPE_VOD      == <<"#","E","X","T","-","X","-","P","L","A","Y","L","I","S","T","-","T","Y","P","E",":","V","O","D">>
S_TYPE_LIVE     == <<"#","E","X","T","-","X","-","P","L","A","Y","L","I","S","T","-","T","Y","P","E",":","L","I","V","E">>
S_HTTP          == <<"h","t","t","p">>
S_SLASH         == <<"/">>
S_PROXY_SEGMENT == <<"/","p","r","o","x","y","-","s","e","g","m","e","n","t","/">>

\* content.split('\n'): a text without "\n" is one line, and a trailing "\n"
\* adds an empty last line.
RECURSIVE SplitNewline(_)
SplitNewline(text) ==
    LET i == Find(text, "\n", 0)
    IN  IF i = -1 THEN <<text>>
        ELSE <<Slice(text, 0, i)>> \o SplitNewline(Slice(text, i + 1, Len(text)))

\* '\n'.join(ls)
RECURSIVE JoinNewline(_)
JoinNewline(ls) ==
    IF ls = <<>> THEN <<>>
    ELSE IF Len(ls) = 1 THEN Head(ls)
    ELSE Head(ls) \o <<"\n">> \o JoinNewline(Tail(ls))

\* s.rsplit('/', 1)[0]
RsplitSlashHead(s) ==
    LET i == RFind(s, "/", Len(s)) IN IF i = -1 THEN s ELSE Slice(s, 0, i)

\* urlparse(url).scheme and .netloc of a URL written scheme://netloc...
UrlScheme(url) ==
    LET c == Find(url, ":", 0) IN IF c = -1 THEN <<>> ELSE Slice(url, 0, c)

UrlNetloc(url) ==
    LET c    == Find(url, ":", 0)
        rest == IF c = -1 THEN url ELSE Slice(url, c + 1, Len(url))
        ends == {i \in 2 .. Len(rest) - 1 : At(rest, i) \in {"/", "?", "#"}}
    IN  IF ~StartsWith(rest, <<"/", "/">>) THEN <<>>
        ELSE Slice(rest, 2, IF ends = {} THEN Len(rest) ELSE SetMin(ends))

\* The characters quote() never encodes.
Unreserved ==
    {"A","B","C","D","E","F","G","H","I","J","K","L","M","N","O","P","Q","R",
     "S","T","U","V","W","X","Y","Z","a","b","c","d","e","f","g","h","i","j",
     "k","l","m","n","o","p","q","r","s","t","u","v","w","x","y","z","0","1",
     "2","3","4","5","6","7","8","9","_",".","-","~"}

\* "%XX" for the other characters of the model's alphabet.
PercentCode(c) ==
    CASE c = "/"  -> <<"%","2","F">>
      [] c = ":"  -> <<"%","3","A">>
      [] c = "?"  -> <<"%","3","F">>
      [] c = "="  -> <<"%","3","D">>
      [] c = "&"  -> <<"%","2","6">>
      [] c = "#"  -> <<"%","2","3">>
      [] c = "%"  -> <<"%","2","5">>
      [] c = ","  -> <<"%","2","C">>
      [] c = " "  -> <<"%","2","0">>
      [] c = "\"" -> <<"%","2","2">>
      [] c = "\t" -> <<"%","0","9">>
      [] c = "\r" -> <<"%","0","D">>
      [] c = "\n" -> <<"%","0","A">>

\* requests.utils.quote(s, safe='')
RECURSIVE quote(_)
quote(s) ==
    IF s = <<>> THEN <<>>
    ELSE (IF Head(s) \in Unreserved THEN <<Head(s)>> ELSE PercentCode(Head(s)))
         \o quote(Tail(s))

\* The four directives the loop drops ("continue").
IsHeaderDirective(stripped_line) ==
    \/ StartsWith(stripped_line, S_EXTM3U)
    \/ StartsWith(stripped_line, S_VERSION)
    \/ StartsWith(stripped_line, S_ALLOW_CACHE)
    \/ StartsWith(stripped_line, S_PLAYLIST_TYPE)

\* base_url after the body of the loop ran on a line: the relative branch
\* appends "/" to it once.
BaseAfter(base_url, stripped_line) ==
    IF /\ ~IsHeaderDirective(stripped_line)
       /\ ~StartsWith(stripped_line, S_HASH)
       /\ stripped_line # <<>>
       /\ ~StartsWith(stripped_line, S_HTTP)
       /\ ~StartsWith(stripped_line, S_SLASH)
       /\ ~EndsWith(base_url, S_SLASH)
    THEN base_url \o S_SLASH ELSE base_url

\* absolute_url of a line that is neither a directive nor empty nor starts
\* with "http".
AbsoluteUrl(m3u8_url, base_url, stripped_line) ==
    IF StartsWith(stripped_line, S_SLASH)
    THEN UrlScheme(m3u8_url) \o <<":", "/", "/">> \o UrlNetloc(m3u8_url) \o stripped_line
    ELSE BaseAfter(base_url, stripped_line) \o stripped_line

\* What the body of the loop appends for a line it does not drop.
RewriteLine(m3u8_url, base_url, ln) ==
    LET stripped_line == Strip(ln) IN
    IF /\ ~StartsWith(stripped_line, S_HASH)
       /\ stripped_line # <<>>
       /\ ~StartsWith(stripped_line, S_HTTP)
    THEN S_PROXY_SEGMENT \o quote(AbsoluteUrl(m3u8_url, base_url, stripped_line))
    ELSE IF StartsWith(stripped_line, S_HTTP)
    THEN S_PROXY_SEGMENT \o quote(stripped_line)
    ELSE ln

\* for line in lines: ...
RECURSIVE RewriteLoop(_, _, _, _)
RewriteLoop(m3u8_url, base_url, lines, rewritten_lines) ==
    IF lines = <<>> THEN rewritten_lines
    ELSE LET ln            == Head(lines)
             stripped_line == Strip(ln)
         IN  IF IsHeaderDirective(stripped_line)
             THEN RewriteLoop(m3u8_url, base_url, Tail(lines), rewritten_lines)
             ELSE RewriteLoop(m3u8_url, BaseAfter(base_url, stripped_line), Tail(lines),
                              Append(rewritten_lines, RewriteLine(m3u8_url, base_url, ln)))

\* The text rewrite_m3u8_playlist returns when the fetch answered content.
rewrite_m3u8_playlist(m3u8_url, base_url, content) ==
    LET base == IF EndsWith(base_url, S_DOT_M3U8) THEN RsplitSlashHead(base_url)
                ELSE base_url
        head == <<S_EXTM3U, S_VERSION_3, S_ALLOW_NO,
                  IF Contains(content, S_ENDLIST) THEN S_TYPE_VOD ELSE S_TYPE_LIVE>>
    IN  JoinNewline(RewriteLoop(m3u8_url, base, SplitNewline(content), head))

\* The playlist URLs and the lines of the playlists the rewriter is given.
U_PLAIN  == <<"h","t","t","p",":","/","/","h","/","p","/","a",".","m","3","u","8">>
U_QUERY  == <<"h","t","t","p","s",":","/","/","h","/","a",".","m","3","u","8","?","t","=","1">>
UrlPool  == {U_PLAIN, U_QUERY}

W_M3U    == <<"#","E","X","T","M","3","U">>
W_VER    == <<"#","E","X","T","-","X","-","V","E","R","S","I","O","N",":","6">>
W_CACHE  == <<"#","E","X","T","-","X","-","A","L","L","O","W","-","C","A","C","H","E",":","Y","E","S">>
W_TYPE   == <<"#","E","X","T","-","X","-","P","L","A","Y","L","I","S","T","-","T","Y","P","E",":","E","V","E","N","T">>
W_INF    == <<"#","E","X","T","I","N","F",":","4",",">>
W_END    == <<"#","E","X","T","-","X","-","E","N","D","L","I","S","T">>
W_REL    == <<"s","1",".","t","s">>
W_ROOT   == <<"/","v","/","s","2",".","t","s">>
W_NET    == <<"/","/","c","/","s","3",".","t","s">>
W_ABS    == <<"h","t","t","p",":","/","/","o","/","s","4",".","t","s">>
SegLinePool == {W_M3U, W_VER, W_CACHE, W_TYPE, W_INF, W_END, W_REL, W_ROOT, W_NET, W_ABS}

SegPlaylists == UNION {[1 .. n -> SegLinePool] : n \in 0 .. MaxSegLines}

RewriteInit ==
    /\ m3u8 \in [url : UrlPool, lines : SegPlaylists]
    /\ rewritten = NoRewrite
    /\ inf_line = <<>>
    /\ inf = NoExt
    /\ src = <<>>
    /\ parsed = [done |-> FALSE, channels |-> <<>>]
    /\ MainInit

\* proxy_m3u8 calls rewrite_m3u8_playlist(m3u8_url, m3u8_url); the server
\* answers with the playlist.
Rewrite ==
    /\ ~rewritten.done
    /\ rewritten' = [done |-> TRUE, raised |-> FALSE,
                     text |-> rewrite_m3u8_playlist(m3u8.url, m3u8.url,
                                                    JoinLines(m3u8.lines))]
    /\ UNCHANGED <<m3u8, src, parsed, evars, mvars>>

\* requests.get or raise_for_status raises: nothing is returned.
RewriteRaise ==
    /\ ~rewritten.done
    /\ rewritten' = [done |-> TRUE, raised |-> TRUE, text |-> <<>>]
    /\ UNCHANGED <<m3u8, src, parsed, evars, mvars>>

RewriteNext == Rewrite \/ RewriteRaise

RewriteSpec == RewriteInit /\ [][RewriteNext]_vars

Init ==
    /\ src = <<>>
    /\ parsed = [done |-> FALSE, channels |-> <<>>]
    /\ PureIdle
    /\ MainInit

\* get_channels, as every route handler runs it.
GetChannelsStep(r) ==
    \/ GetCached(r)
    \/ \E text \in UpstreamTexts : FetchOk(r, text)
    \/ FetchFail(r)

\* The steps the server's own threads take for a watch, play or
\* play-audio request r.
ServerStep(r) ==
    \/ GetChannelsStep(r)
    \/ WatchRespond(r)
    \/ PlayDispatch(r)
    \/ HlsOk(r)
    \/ HlsRewriteFail(r)
    \/ \E ok \in BOOLEAN : HlsRawResult(r, ok)
    \/ \E ok \in BOOLEAN : DirectResult(r, ok)
    \/ AudioRespond(r)
    \/ Spawn(r)
    \/ SpawnFail(r)
    \/ ReadData(r)
    \/ ReadEof(r)
    \/ ReadError(r)
    \/ Terminate(r)
    \/ Poll(r)
    \/ Wait(r)

\* The steps of the clients and of the ffmpeg processes.
EnvStep(r) ==
    \/ \E rt \in Routes \ {"list"}, g \in Groups, i \in -1 .. MaxIdx : Enter(r, rt, g, i)
    \/ ProcOutput(r)
    \/ ProcExit(r)
    \/ ClientTake(r)
    \/ ClientGone(r)

\* The media routes, with requests that arrive within one TTL of each
\* other (the clock stands still).
Next ==
    \/ \E r \in Requests : ServerStep(r)
    \/ \E r \in Requests : EnvStep(r)

Spec == Init /\ [][Next]_vars

\* The playlist cache over time: /list/<group> requests, which do nothing
\* but call get_channels, and the clock.
CacheNext ==
    \/ \E r \in Requests, g \in Groups : Enter(r, "list", g, 0)
    \/ \E r \in Requests : GetChannelsStep(r)
    \/ \E r \in Requests : ListRender(r)
    \/ Tick

CacheSpec == Init /\ [][CacheNext]_vars

\* What the server is bound to do sooner or later for request r: every
\* step of its handler except the ones that wait on the outside world
\* without a timeout.  requests.get has timeout=25, so a playlist or stream
\* fetch ends one way or the other; proc.stdout.read has none, so a read
\* returns only when ffmpeg has written or exited.
Progress(r) ==
    \/ GetChannelsStep(r)
    \/ WatchRespond(r)
    \/ PlayDispatch(r)
    \/ HlsOk(r) \/ HlsRewriteFail(r)
    \/ \E ok \in BOOLEAN : HlsRawResult(r, ok)
    \/ \E ok \in BOOLEAN : DirectResult(r, ok)
    \/ AudioRespond(r)
    \/ Spawn(r) \/ SpawnFail(r)
    \/ ReadData(r) \/ ReadEof(r)
    \/ Terminate(r) \/ Poll(r) \/ Wait(r)

\* A process that was sent SIGKILL exits; a client takes the chunk or
\* hangs up.
Delivery(r) ==
    \/ proc[r].kill /\ ProcExit(r)
    \/ ClientTake(r) \/ ClientGone(r)

\* One thread per request (app.run(threaded=True)): no request is held up
\* for ever while one of its steps is possible.
FairSpec ==
    Spec /\ \A r \in Requests : WF_vars(Progress(r)) /\ WF_vars(Delivery(r))

(* ---------------------------------------------------------------------- *)
(* Properties                                                             *)
(* ---------------------------------------------------------------------- *)

\* C1: when the fetch of a get_channels call fails and CACHE holds an
\* entry for the source that is older than the TTL, the call returns that
\* (stale) entry's channel list.
C1_StaleOnFailure ==
    [][\A r \in Requests :
         (/\ req[r].pc = "fetch" /\ req'[r].outcome = "failed"
          /\ CACHE[req[r].group].present
          /\ req[r].now - CACHE[req[r].group].time >= REFRESH_INTERVAL)
         => req'[r].channels = CACHE[req[r].group].channels]_vars

\* C2: no two play-audio requests for the same (group, idx) have an
\* ffmpeg process running at the same time.
C2_OneTranscodePerKey ==
    \A r1, r2 \in Requests :
        (r1 # r2 /\ req[r1].route = "audio" /\ req[r2].route = "audio"
           /\ req[r1].group = req[r2].group /\ req[r1].idx = req[r2].idx)
        => ~(proc[r1].state = "running" /\ proc[r2].state = "running")

\* C3: at most one upstream fetch of a source is in flight at any time.
C3_SingleFlightRefresh ==
    \A n \in DOMAIN PLAYLISTS :
        Cardinality({r \in Requests : req[r].pc = "fetch" /\ req[r].group = n}) <= 1

\* C4: a get_channels call that finds an entry younger than 1800 seconds
\* returns that entry's channels, issues no fetch and leaves CACHE as it
\* is; a call goes on to fetch only when the entry is absent or its age is
\* at least 1800 seconds.
C4_FreshHitNoFetch ==
    [][\A r \in Requests :
         LET cached == CACHE[req[r].group] IN
         /\ (req[r].pc = "get" /\ req'[r] # req[r]
               /\ cached.present /\ req[r].now - cached.time < 1800)
            => /\ req'[r].pc = "route"
               /\ req'[r].channels = cached.channels
               /\ CACHE' = CACHE
         /\ (req[r].pc = "get" /\ req'[r].pc = "fetch")
            => (~cached.present \/ req[r].now - cached.time >= 1800)]_vars

\* A call was served from an entry of positive age below the TTL.
C4_Witness ==
    \E r \in Requests :
        /\ req[r].pc = "route" /\ req[r].outcome = "hit"
        /\ CACHE[req[r].group].present
        /\ req[r].now - CACHE[req[r].group].time = TickSeconds
        /\ req[r].channels = CACHE[req[r].group].channels

\* C5: every entry of CACHE is the time of one refreshing call paired
\* with the complete parse that same call computed, and every list served
\* from the cache is the complete parse of one response body.
C5_AtomicEntry ==
    /\ \A n \in DOMAIN PLAYLISTS :
         CACHE[n].present =>
           \E r \in Requests :
             /\ req[r].group = n /\ req[r].outcome = "fetched"
             /\ CACHE[n].time = req[r].now
             /\ CACHE[n].channels = req[r].channels
             /\ \E text \in UpstreamTexts : req[r].channels = ParsedUpstream[text]
    /\ \A r \in Requests :
         req[r].outcome = "hit" =>
           \E text \in UpstreamTexts : req[r].channels = ParsedUpstream[text]

\* An entry was replaced by a later refresh with a different list.
C5_Witness ==
    \E n \in DOMAIN PLAYLISTS, r1, r2 \in Requests :
        /\ req[r1].group = n /\ req[r1].outcome = "fetched"
        /\ req[r2].group = n /\ req[r2].outcome = "fetched"
        /\ req[r1].now < req[r2].now
        /\ req[r1].channels # req[r2].channels
        /\ CACHE[n] = [present |-> TRUE, time |-> req[r2].now, channels |-> req[r2].channels]

\* C6: once ffmpeg has been spawned, the generator's way out goes through
\* terminate(), then, after the grace period, kill() if the process is
\* still alive, then wait(); a finished generator leaves no process that
\* is running or unreaped.
C6_Teardown ==
    \A r \in Requests :
        /\ (req[r].pc \in {"poll", "wait", "done"} /\ proc[r].state # "none")
           => proc[r].term
        /\ proc[r].kill => (proc[r].term /\ req[r].pc \in {"wait", "done"})
        /\ (req[r].pc = "wait" /\ proc[r].state = "running") => proc[r].kill
        /\ (req[r].pc = "done" /\ proc[r].state # "none") => proc[r].state = "reaped"

\* A generator finished after it had to kill its process.
C6_Witness ==
    \E r \in Requests :
        req[r].pc = "done" /\ proc[r].state = "reaped" /\ proc[r].term /\ proc[r].kill

\* C7: a play-audio request that waits in proc.stdout.read comes to an
\* end, whatever ffmpeg does.
C7_ReadGivesUp ==
    \A r \in Requests : (req[r].pc = "read") ~> (req[r].pc = "done")

\* C8: a watch, play or play-audio request for an unknown group, or for
\* an index outside the list get_channels returned, ends with 404, without
\* a stream fetch and without an ffmpeg process.
C8_NotFound ==
    \A r \in Requests :
        (/\ req[r].route \in {"watch", "play", "audio"}
         /\ req[r].pc \notin {"idle", "get", "fetch", "route"}
         /\ \/ req[r].group \notin DOMAIN PLAYLISTS
            \/ req[r].idx < 0
            \/ req[r].idx >= Len(req[r].channels))
        => /\ req[r].pc = "done"
           /\ req[r].status = 404
           /\ req[r].fetches = 0
           /\ proc[r].state = "none"

\* A play or play-audio request has been answered 404 for the index just
\* past a non-empty list, and a request for an unknown group has been
\* answered 404.
C8_Witness ==
    /\ \E r \in Requests :
         /\ req[r].pc = "done" /\ req[r].status = 404
         /\ req[r].route \in {"play", "audio"}
         /\ req[r].channels # <<>> /\ req[r].idx = Len(req[r].channels)
    /\ \E r \in Requests :
         /\ req[r].pc = "done" /\ req[r].status = 404
         /\ req[r].group \notin DOMAIN PLAYLISTS

\* The grammar of the claims about parse_m3u, on the lines of the input.
IsDirectiveLine(l) == StartsWith(l, S_EXTINF)
IsCommentLine(l)   == StartsWith(l, S_HASH) /\ ~IsDirectiveLine(l)
IsUrlLine(l)       == l # <<>> /\ Strip(l) = l /\ ~StartsWith(l, S_HASH)

\* Entries only: each a directive, comment lines, one URL line.
RECURSIVE EntriesOnly(_, _)
EntriesOnly(ls, open) ==
    IF ls = <<>> THEN ~open
    ELSE IF IsDirectiveLine(Head(ls)) THEN ~open /\ EntriesOnly(Tail(ls), TRUE)
    ELSE IF IsCommentLine(Head(ls)) THEN open /\ EntriesOnly(Tail(ls), TRUE)
    ELSE IF IsUrlLine(Head(ls)) THEN open /\ EntriesOnly(Tail(ls), FALSE)
    ELSE FALSE

WellFormed(ls) == ls # <<>> /\ Head(ls) = L_HEADER /\ EntriesOnly(Tail(ls), FALSE)

\* The <<directive, URL>> pairs of the lines: a directive is paired with
\* the first URL line after it, unless another directive comes first.
RECURSIVE CompleteEntries(_, _)
CompleteEntries(ls, pending) ==
    IF ls = <<>> THEN <<>>
    ELSE IF IsDirectiveLine(Head(ls)) THEN CompleteEntries(Tail(ls), <<Head(ls)>>)
    ELSE IF IsUrlLine(Head(ls)) /\ pending # <<>>
         THEN <<<<pending[1], Head(ls)>>>> \o CompleteEntries(Tail(ls), <<>>)
    ELSE CompleteEntries(Tail(ls), pending)

\* A directive with no URL line before the next directive or the end.
HasIncompleteEntry(ls) ==
    Cardinality({k \in 1 .. Len(ls) : IsDirectiveLine(ls[k])}) > Len(CompleteEntries(ls, <<>>))

\* C9: on a well-formed text of N entries parse_m3u returns N records,
\* the i-th with the URL of the i-th entry; none for a header alone.
C9_OneRecordPerEntry ==
    (parsed.done /\ WellFormed(src)) =>
        LET urls == SelectSeq(src, IsUrlLine) IN
        /\ Len(parsed.channels) = Len(urls)
        /\ Len(urls) = Cardinality({k \in 1 .. Len(src) : IsDirectiveLine(src[k])})
        /\ \A i \in 1 .. Len(urls) : parsed.channels[i].url = urls[i]

\* Two entries with different URLs were parsed in order.
C9_Witness ==
    /\ parsed.done /\ WellFormed(src)
    /\ Len(parsed.channels) = 2
    /\ parsed.channels[1].url = L_URL_2 /\ parsed.channels[2].url = L_URL_1

\* C10: on lines that hold a directive with no URL before the next
\* directive or the end, parse_m3u returns one record per complete entry
\* and none for the incomplete one: each record has the title and
\* attributes of its own directive and the URL of its own entry.
C10_IncompleteEntryDropped ==
    (parsed.done /\ HasIncompleteEntry(src)) =>
        LET es == CompleteEntries(src, <<>>) IN
        /\ Len(parsed.channels) = Len(es)
        /\ \A i \in 1 .. Len(es) :
             parsed.channels[i] = ChannelRecord(parse_extinf(es[i][1]), es[i][2])

(* ---------------------------------------------------------------------- *)
(* Titles and attributes of a single #EXTINF line                         *)
(* ---------------------------------------------------------------------- *)
\* The number of double quotes in s[0:p].
QuotesBefore(s, p) == Cardinality({i \in 0 .. p - 1 : At(s, i) = "\""})

\* Every opening quote of s has its closing quote.
BalancedQuotes(s) == QuotesBefore(s, Len(s)) % 2 = 0

\* The first comma of s that is not inside a quoted value, or -1.
TopComma(s) ==
    LET cs == {i \in 0 .. Len(s) - 1 :
                  At(s, i) = "," /\ QuotesBefore(s, i) % 2 = 0}
    IN  IF cs = {} THEN -1 ELSE SetMin(cs)

\* The text after that comma, and the attributes written before it.
TopTitle(s) ==
    IF TopComma(s) = -1 THEN <<>> ELSE Strip(Slice(s, TopComma(s) + 1, Len(s)))

TopAttrs(s) ==
    ScanAttrs(IF TopComma(s) = -1 THEN s ELSE Slice(s, 0, TopComma(s)), 0, EmptyDict)

ExpectedTitle(s) ==
    IF TopTitle(s) # <<>> THEN TopTitle(s)
    ELSE IF GetOrEmpty(TopAttrs(s), S_TVG_NAME) # <<>>
         THEN GetOrEmpty(TopAttrs(s), S_TVG_NAME)
         ELSE S_UNKNOWN

\* C11: the record of an #EXTINF line has as its title the text after the
\* first comma that is not inside a quoted attribute value (commas of the
\* title itself are kept); when that text is empty or there is no such
\* comma, the title is the tvg-name attribute if non-empty, and "Unknown"
\* otherwise.
C11_TitleAfterTopLevelComma ==
    (inf.done /\ BalancedQuotes(inf_line)) =>
        /\ Len(inf.channels) = 1
        /\ inf.channels[1].title = ExpectedTitle(inf_line)

\* The position of the opening quote of s that is never closed, or -1.
OpenQuote(s) ==
    IF BalancedQuotes(s) THEN -1
    ELSE SetMax({i \in 0 .. Len(s) - 1 : At(s, i) = "\""})

\* The text of s before the attribute whose quote is never closed: up to
\* the unclosed quote, without the "=" that introduces it.
BeforeOpenQuote(s) ==
    LET head == Slice(s, 0, OpenQuote(s))
    IN  IF EndsWith(head, <<"=">>) THEN Slice(head, 0, Len(head) - 1) ELSE head

\* C14: on a line with an opening quote that has no closing quote,
\* parse_extinf returns exactly the attributes completed before that
\* quote, none made from the text at or after it, and parse_m3u still
\* emits the record of the entry when a URL line follows.
C14_UnterminatedQuoteStopsScan ==
    (inf.done /\ OpenQuote(inf_line) # -1) =>
        /\ inf.attrs = ScanAttrs(BeforeOpenQuote(inf_line), 0, EmptyDict)
        /\ Len(inf.channels) = 1
        /\ inf.channels[1].url = L_URL_1

(* ---------------------------------------------------------------------- *)
(* The lines of a rewritten playlist                                      *)
(* ---------------------------------------------------------------------- *)
\* The lines of the fetched playlist and of the returned text.
FetchedLines == SplitNewline(JoinLines(m3u8.lines))
ReturnedLines == SplitNewline(rewritten.text)

IsUriLine(ln) == Strip(ln) # <<>> /\ ~StartsWith(Strip(ln), S_HASH)

\* The URL of the playlist without its query, up to and with its last "/".
BaseDirectory(url) ==
    LET qm   == Find(url, "?", 0)
        path == IF qm = -1 THEN url ELSE Slice(url, 0, qm)
    IN  Slice(path, 0, RFind(path, "/", Len(path)) + 1)

\* The absolute URL a URI of the playlist at url refers to.
Resolved(url, ref) ==
    IF Contains(ref, <<":", "/", "/">>) THEN ref
    ELSE IF StartsWith(ref, <<"/", "/">>) THEN UrlScheme(url) \o <<":">> \o ref
    ELSE IF StartsWith(ref, S_SLASH)
         THEN UrlScheme(url) \o <<":", "/", "/">> \o UrlNetloc(url) \o ref
    ELSE BaseDirectory(url) \o ref

RECURSIVE ProxiedUris(_, _)
ProxiedUris(url, lines) ==
    IF lines = <<>> THEN <<>>
    ELSE IF IsUriLine(Head(lines))
         THEN <<S_PROXY_SEGMENT \o quote(Resolved(url, Strip(Head(lines))))>>
              \o ProxiedUris(url, Tail(lines))
         ELSE ProxiedUris(url, Tail(lines))

\* C12: every non-empty line of the fetched playlist that does not start
\* with "#" is replaced by "/proxy-segment/" and the percent-encoding of
\* its resolved absolute URL: an absolute URL as it is, a scheme-relative
\* URI with the playlist's scheme, a relative URI against the playlist's
\* base directory.
C12_UrisResolvedAndProxied ==
    (rewritten.done /\ ~rewritten.raised) =>
        SelectSeq(ReturnedLines, IsUriLine) = ProxiedUris(m3u8.url, FetchedLines)

IsOtherDirective(ln) ==
    StartsWith(Strip(ln), S_HASH) /\ ~StartsWith(Strip(ln), S_PLAYLIST_TYPE)

IsPlaylistType(ln) == StartsWith(Strip(ln), S_PLAYLIST_TYPE)

\* a is b with some of its elements left out.
RECURSIVE IsSubsequence(_, _)
IsSubsequence(a, b) ==
    IF a = <<>> THEN TRUE
    ELSE IF b = <<>> THEN FALSE
    ELSE IF Head(a) = Head(b) THEN IsSubsequence(Tail(a), Tail(b))
    ELSE IsSubsequence(a, Tail(b))

\* C13: only the playlist-type directive is stripped or replaced (VOD when
\* the input holds the end-of-list marker, LIVE otherwise); every other
\* line of the fetched playlist that starts with "#", its version
\* directive included, is in the output unchanged and in its original
\* relative order.
C13_OtherDirectivesPassThrough ==
    (rewritten.done /\ ~rewritten.raised) =>
        /\ SelectSeq(ReturnedLines, IsPlaylistType) =
               <<IF Contains(JoinLines(m3u8.lines), S_ENDLIST)
                 THEN S_TYPE_VOD ELSE S_TYPE_LIVE>>
        /\ IsSubsequence(SelectSeq(FetchedLines, IsOtherDirective), ReturnedLines)

\* C15: a get_channels call whose fetch or parse fails leaves CACHE as it
\* was (the entry of its source keeps its time and channel list, none is
\* created, the other sources' entries are untouched); CACHE changes only
\* by a successful fetch-and-parse, and then only in the entry of the
\* source that call asked for.
C15_FailureLeavesCache ==
    [][/\ \A r \in Requests :
            (req[r].pc = "fetch" /\ req'[r].outcome = "failed") => CACHE' = CACHE
       /\ (CACHE' # CACHE) =>
            \E r \in Requests :
              /\ req[r].pc = "fetch" /\ req'[r].outcome = "fetched"
              /\ \A n \in DOMAIN PLAYLISTS \ {req[r].group} : CACHE'[n] = CACHE[n]]_vars

\* A call failed on a source whose entry an earlier call had stored, while
\* the other source has no entry: the entry is still that earlier call's.
C15_Witness ==
    \E r1, r2 \in Requests :
        /\ req[r2].outcome = "failed" /\ req[r1].outcome = "fetched"
        /\ req[r1].group = req[r2].group /\ req[r1].now < req[r2].now
        /\ CACHE[req[r2].group] =
             [present |-> TRUE, time |-> req[r1].now, channels |-> req[r1].channels]
        /\ \E n \in DOMAIN PLAYLISTS : ~CACHE[n].present

=============================================================================
